---- MODULE Spec2Model ----
(***************************************************************************)
(* dbless_migration.py: an ephemeral database container, a readiness wait  *)
(* and alembic migrations, driven by the commands start, stop and auto.    *)
(*                                                                         *)
(* One process runs one command at a time.  The container runtime, the     *)
(* image cache and the database's migration history outlive the process;   *)
(* the alembic stdout buffer, the pending exception and the readiness loop *)
(* belong to the process and are rebuilt at every invocation.              *)
(***************************************************************************)
EXTENDS Integers, Sequences, FiniteSets, TLC

VARIABLES
    mode,        \* the function the harness invoked: a command or a unit under test
    pc,          \* the statement the process is about to execute
    ret,         \* who called stop_container: "run" (run_container) or "cmd" (stop)
    containers,  \* statuses of the runtime's containers named CONTAINER_NAME
    images,      \* local image cache: a set of tag lists, one per image
    history,     \* migration history of the target database (current heads)
    stdout,      \* alembic_cfg.stdout, the io.StringIO: [buf, pos] in lines
    err,         \* the exception propagating out of the flow, "none" if none
    context,     \* __context__ of err: the exception it was raised while handling
    trace,       \* calls made by this invocation, in order (probes are counted apart)
    timeout,     \* wait_for_db_connection's timeout argument
    elapsed,     \* time.monotonic() - start_time, in seconds
    probes,      \* engine.connect() attempts made by the readiness loop
    unreach,     \* attempts that raised OperationalError
    sleeps,      \* time.sleep(1) calls made by the readiness loop
    connected,   \* the loop's else branch ran ("Connected")
    waitRet,     \* what wait_for_db_connection did: "-" pending, "None" returned, "raise"
    runArgs,     \* arguments of this invocation's client.containers.run call
    pc2,         \* a second process on the same runtime: its statement in run/stop_container
    ret2,        \* the second process's caller of stop_container
    err2         \* the exception that ended the second process's call, "none" if none

env   == <<containers, images, history>>
exc   == <<err, context>>
waitv == <<timeout, elapsed, probes, unreach, sleeps, connected, waitRet>>
p2    == <<pc2, ret2, err2>>
vars  == <<mode, pc, ret, containers, images, history, stdout, err, context,
           trace, timeout, elapsed, probes, unreach, sleeps, connected, waitRet,
           runArgs, pc2, ret2, err2>>

----------------------------------------------------------------------------
(* Constants of the program and bounds of the model *)

CONTAINER_NAME == "dbless"
START_TIMEOUT  == 60          \* start: wait_for_db_connection(..., timeout=60)
SLEEP_SECONDS  == 1           \* time.sleep(1)

MaxTimeout  == 3              \* timeouts tried when wait_for_db_connection is called alone
MaxProbeDur == 1              \* longest time one connection attempt takes, in seconds

IMAGE == "db:latest"          \* config.image_name
ENVIRONMENT == "PASS=x"       \* config.container_env
PORTS == "5432=5432"          \* config.port_mapping
OTHER_TAG == "db:15"             \* another tag an image may carry
HEAD  == "head"               \* the revision command.upgrade(cfg, "head") ends at

Commands == {"start", "stop", "auto"}
Units    == {"run", "wait", "upgrade"}

ImageCaches ==
    { {}, {<<IMAGE>>}, {<<OTHER_TAG, IMAGE>>}, {<<>>, <<OTHER_TAG>>} }

Histories == { <<>>, <<"a1">> }

Errors == {"none", "ImagePullError", "ContainerStartError", "NameConflict",
           "NotFound", "ContainerStopError", "ProbeError", "Abort",
           "MigrationStateError", "MigrationApplyError", "MigrationGenerateError"}

----------------------------------------------------------------------------
(* Pure helpers *)

RECURSIVE Count(_, _)
Count(s, e) ==
    IF s = <<>> THEN 0
    ELSE (IF Head(s) = e THEN 1 ELSE 0) + Count(Tail(s), e)

Has(s, e) == \E i \in 1..Len(s) : s[i] = e

\* index of the first e in s, 0 when absent
Index(s, e) ==
    IF Has(s, e) THEN CHOOSE i \in 1..Len(s) : s[i] = e /\ \A j \in 1..(i-1) : s[j] # e
    ELSE 0

\* client.containers.list(): docker lists only running containers by default
ListContainers(cs) == SelectSeq(cs, LAMBDA c : c = "running")

\* any(CONTAINER_NAME == container.name for container in client.containers.list())
ContainerListed(cs) == Len(ListContainers(cs)) > 0

\* [i.tags[0] for i in client.images.list() if i.tags]
FirstTags(imgs) == { i[1] : i \in { j \in imgs : j # <<>> } }

\* image_name not in [...]: the pull is needed
NeedsPull(name, imgs) == name \notin FirstTags(imgs)

\* the cache after a completed pull of name
Pulled(name, imgs) ==
    IF \E i \in imgs : Has(i, name) THEN imgs ELSE imgs \cup {<<name>>}

\* io.StringIO.write of whole lines at the current position
WriteLines(s, lines) ==
    [buf |-> SubSeq(s.buf, 1, s.pos) \o lines
               \o SubSeq(s.buf, s.pos + Len(lines) + 1, Len(s.buf)),
     pos |-> s.pos + Len(lines)]

\* io.StringIO.readline: the line at the current position, <<>> ("") at the end
ReadLine(s) ==
    IF s.pos < Len(s.buf)
    THEN [line |-> s.buf[s.pos + 1], s |-> [s EXCEPT !.pos = @ + 1]]
    ELSE [line |-> <<>>, s |-> s]

\* what command.current prints: one line "<rev> (head)" per current head
CurrentOutput(h) == [i \in 1..Len(h) |-> <<h[i], "(head)">>]

\* auto without its finally clause: an exception leaves the flow at once
UnwindNoFinally(m, tr) == "done"

\* start given a cleanup of its own: a failing start also tears the container down
UnwindStartCleansUp(m, tr) ==
    IF m \in {"auto", "start"} /\ ~Has(tr, "stop") THEN "stop_cmd" ELSE "done"

\* where control goes when an exception leaves the flow: auto's finally, else out
Unwind(m, tr) ==
    IF m = "auto" /\ ~Has(tr, "stop") THEN "stop_cmd" ELSE "done"

\* the cleanup's exception raised with the pending one suppressed (raise ... from None)
ChainDropped(cur) == "none"

\* __context__ of an exception raised while cur is pending
Chain(cur) == cur

\* start with the readiness wait left out: migrations right after containers.run
AfterFnSkipsWait(fn, m, r) ==
    CASE fn = "ensure"  -> "run_list"
      [] fn = "stop"    -> IF r = "run" THEN "run_run" ELSE "done"
      [] fn = "run"     -> IF m = "run" THEN "done" ELSE "upg_current"
      [] fn = "wait"    -> IF m = "wait" THEN "done" ELSE "upg_current"
      [] fn = "upgrade" -> IF m = "auto" THEN "create" ELSE "done"
      [] fn = "create"  -> "stop_cmd"

\* where control goes when function fn returns normally
AfterFn(fn, m, r) ==
    CASE fn = "ensure"  -> "run_list"
      [] fn = "stop"    -> IF r = "run" THEN "run_run" ELSE "done"
      [] fn = "run"     -> IF m = "run" THEN "done" ELSE "wait_begin"
      [] fn = "wait"    -> IF m = "wait" THEN "done" ELSE "upg_current"
      [] fn = "upgrade" -> IF m = "auto" THEN "create" ELSE "done"
      [] fn = "create"  -> "stop_cmd"

\* stop_container without its existence check
StopBranchUnchecked(cs, r) == "stop_get"

\* stop_container's branch on the existence check
StopBranch(cs, r) ==
    IF ContainerListed(cs) THEN "stop_get" ELSE AfterFn("stop", "-", r)

\* run_container's branch on the existence check
RunBranch(cs) ==
    IF ContainerListed(cs) THEN "stop_list" ELSE "run_run"

\* the readiness loop with the break after a successful attempt left out
AfterProbeKeepsPolling(outcome, m) ==
    CASE outcome = "ok"          -> "wait_check"
      [] outcome = "unreachable" -> "wait_sleep"
      [] OTHER                   -> "raise"

\* the readiness loop catching every exception: except Exception
AfterProbeRetriesAll(outcome, m) ==
    CASE outcome = "ok" -> AfterFn("wait", m, "-")
      [] OTHER          -> "wait_sleep"

\* the readiness loop after one attempt
AfterProbe(outcome, m) ==
    CASE outcome = "ok"          -> AfterFn("wait", m, "-")
      [] outcome = "unreachable" -> "wait_sleep"
      [] OTHER                   -> "raise"

\* client.containers.run(image_name, name=CONTAINER_NAME, detach=True, ports=ports,
\* environment=env): the arguments the runtime receives
RunArguments(image, e, ports) ==
    [image |-> image, name |-> CONTAINER_NAME, detach |-> TRUE,
     ports |-> ports, environment |-> e]

\* no client.containers.run call made yet
NoArguments ==
    [image |-> "", name |-> "", detach |-> FALSE, ports |-> "", environment |-> ""]

\* a run call that leaves the name to the runtime: no name is ever taken
NameNeverInUse(cs) == FALSE

\* name=CONTAINER_NAME: the runtime refuses the call while any container, running
\* or not, holds the name
NameInUse(cs) == Len(cs) > 0

\* the loop without its time limit: while True
LoopContinuesForever(e, t) == TRUE

\* the loop condition off by one: <= timeout
LoopContinuesInclusive(e, t) == e <= t

\* the loop condition: time.monotonic() - start_time < timeout
LoopContinues(e, t) == e < t

\* the guard with its test inverted: if not value
GuardInverted(value) == value = <<>>

\* upgrade_database's guard on the line it read
GuardTrips(value) == value # <<>>

----------------------------------------------------------------------------
Init ==
    /\ mode = "none"
    /\ pc = "idle"
    /\ ret = "cmd"
    /\ containers \in { <<>>, <<"running">>, <<"exited">> }
    /\ images \in ImageCaches
    /\ history \in Histories
    /\ stdout = [buf |-> <<>>, pos |-> 0]
    /\ err = "none"
    /\ context = "none"
    /\ trace = <<>>
    /\ timeout = 0
    /\ elapsed = 0
    /\ probes = 0
    /\ unreach = 0
    /\ sleeps = 0
    /\ connected = FALSE
    /\ waitRet = "-"
    /\ runArgs = NoArguments
    /\ pc2 = "idle"
    /\ ret2 = "cmd"
    /\ err2 = "none"

\* raise e: it replaces the pending exception, which becomes its context
Raise(e) ==
    /\ err' = e
    /\ context' = Chain(err)
    /\ pc' = Unwind(mode, trace)

\* app(): initialize_alembic_cfg builds a fresh stdout buffer, then the command runs
Invoke(m, t) ==
    /\ pc \in {"idle", "done"}
    /\ mode' = m
    /\ ret' = "cmd"
    /\ stdout' = [buf |-> <<>>, pos |-> 0]
    /\ err' = "none"
    /\ context' = "none"
    /\ trace' = IF m \in {"start", "auto"} THEN <<"start">> ELSE <<>>
    /\ timeout' = t
    /\ elapsed' = 0
    /\ probes' = 0
    /\ unreach' = 0
    /\ sleeps' = 0
    /\ connected' = FALSE
    /\ waitRet' = "-"
    /\ pc' = CASE m \in {"start", "auto"} -> "ensure_list"
               [] m = "stop"    -> "stop_cmd"
               [] m = "run"     -> "run_list"
               [] m = "wait"    -> "wait_begin"
               [] m = "upgrade" -> "upg_current"
    /\ runArgs' = NoArguments
    /\ UNCHANGED <<env, p2>>

InvokeCommand ==
    \E m \in Commands : Invoke(m, START_TIMEOUT)

InvokeUnit ==
    \E m \in Units : \E t \in 0..MaxTimeout : Invoke(m, IF m = "wait" THEN t ELSE 0)

\* ensure_image_exists: the cache check
ensure_image_exists ==
    /\ pc = "ensure_list"
    /\ pc' = IF NeedsPull(IMAGE, images) THEN "pull" ELSE AfterFn("ensure", mode, ret)
    /\ UNCHANGED <<mode, ret, env, stdout, exc, trace, waitv>>
    /\ UNCHANGED <<runArgs, p2>>

\* image_pull
image_pull ==
    /\ pc = "pull"
    /\ trace' = Append(trace, "pull")
    /\ \E ok \in BOOLEAN :
         IF ok
         THEN /\ images' = Pulled(IMAGE, images)
              /\ pc' = AfterFn("ensure", mode, ret)
              /\ UNCHANGED exc
         ELSE /\ Raise("ImagePullError")
              /\ UNCHANGED images
    /\ UNCHANGED <<mode, ret, containers, history, stdout, waitv>>
    /\ UNCHANGED <<runArgs, p2>>

\* run_container: the existence check, stop_container() when it finds one
run_container ==
    /\ pc = "run_list"
    /\ trace' = Append(trace, "run")
    /\ pc' = RunBranch(containers)
    /\ ret' = "run"
    /\ UNCHANGED <<mode, env, stdout, exc, waitv>>
    /\ UNCHANGED <<runArgs, p2>>

\* client.containers.run(image, name=CONTAINER_NAME, detach=True, ...)
containers_run ==
    /\ pc = "run_run"
    /\ trace' = Append(trace, "rt_run")
    /\ \E ok \in BOOLEAN :
         IF NameInUse(containers)
         THEN \* the runtime refuses a name in use, whatever the container's status
              /\ Raise("NameConflict")
              /\ UNCHANGED <<containers, history>>
         ELSE IF ok
         THEN /\ containers' = Append(containers, "running")
              /\ history' \in {history, <<>>}
              /\ pc' = AfterFn("run", mode, ret)
              /\ UNCHANGED exc
         ELSE /\ Raise("ContainerStartError")
              /\ UNCHANGED <<containers, history>>
    /\ runArgs' = RunArguments(IMAGE, ENVIRONMENT, PORTS)
    /\ UNCHANGED <<mode, ret, images, stdout, waitv, p2>>

\* stop(): the command, and auto's finally clause
stop ==
    /\ pc = "stop_cmd"
    /\ trace' = Append(trace, "stop")
    /\ ret' = "cmd"
    /\ pc' = "stop_list"
    /\ UNCHANGED <<mode, env, stdout, exc, waitv>>
    /\ UNCHANGED <<runArgs, p2>>

\* stop_container: the existence check
stop_container ==
    /\ pc = "stop_list"
    /\ pc' = StopBranch(containers, ret)
    /\ UNCHANGED <<mode, ret, env, stdout, exc, trace, waitv>>
    /\ UNCHANGED <<runArgs, p2>>

\* client.containers.get(CONTAINER_NAME)
containers_get ==
    /\ pc = "stop_get"
    /\ IF containers = <<>>
       THEN Raise("NotFound")
       ELSE pc' = "stop_stop" /\ UNCHANGED exc
    /\ UNCHANGED <<mode, ret, env, stdout, trace, waitv>>
    /\ UNCHANGED <<runArgs, p2>>

\* container.stop()
container_stop ==
    /\ pc = "stop_stop"
    /\ trace' = Append(trace, "rt_stop")
    /\ \E ok \in BOOLEAN :
         IF containers = <<>>
         THEN Raise("NotFound") /\ UNCHANGED containers
         ELSE IF ok
         THEN /\ containers' = <<"exited">> \o Tail(containers)
              /\ pc' = "stop_remove"
              /\ UNCHANGED exc
         ELSE Raise("ContainerStopError") /\ UNCHANGED containers
    /\ UNCHANGED <<mode, ret, images, history, stdout, waitv>>
    /\ UNCHANGED <<runArgs, p2>>

\* container.remove()
container_remove ==
    /\ pc = "stop_remove"
    /\ trace' = Append(trace, "rt_remove")
    /\ \E ok \in BOOLEAN :
         IF containers = <<>>
         THEN Raise("NotFound") /\ UNCHANGED containers
         ELSE IF ok
         THEN /\ containers' = Tail(containers)
              /\ pc' = AfterFn("stop", mode, ret)
              /\ UNCHANGED exc
         ELSE Raise("ContainerStopError") /\ UNCHANGED containers
    /\ UNCHANGED <<mode, ret, images, history, stdout, waitv>>
    /\ UNCHANGED <<runArgs, p2>>

\* wait_for_db_connection: start_time = time.monotonic()
wait_begin ==
    /\ pc = "wait_begin"
    /\ trace' = Append(trace, "wait")
    /\ elapsed' = 0
    /\ pc' = "wait_check"
    /\ UNCHANGED <<mode, ret, env, stdout, exc, timeout, probes, unreach, sleeps,
                   connected, waitRet>>
    /\ UNCHANGED <<runArgs, p2>>

\* while time.monotonic() - start_time < timeout; falling out of the loop returns None
wait_check ==
    /\ pc = "wait_check"
    /\ IF LoopContinues(elapsed, timeout)
       THEN pc' = "wait_probe" /\ UNCHANGED waitRet
       ELSE pc' = AfterFn("wait", mode, ret) /\ waitRet' = "None"
    /\ UNCHANGED <<mode, ret, env, stdout, exc, trace, timeout, elapsed, probes,
                   unreach, sleeps, connected>>
    /\ UNCHANGED <<runArgs, p2>>

\* create_engine(engine_url); engine.connect(): one attempt, taking d seconds
wait_probe ==
    /\ pc = "wait_probe"
    /\ \E d \in 0..MaxProbeDur : \E outcome \in {"ok", "unreachable", "other"} :
         /\ elapsed' = elapsed + d
         /\ probes' = probes + 1
         /\ unreach' = IF outcome = "unreachable" THEN unreach + 1 ELSE unreach
         /\ connected' = (outcome = "ok")
         /\ waitRet' = CASE outcome = "ok" -> "None"
                         [] outcome = "unreachable" -> waitRet
                         [] OTHER -> "raise"
         /\ IF AfterProbe(outcome, mode) = "raise"
            THEN Raise("ProbeError")
            ELSE pc' = AfterProbe(outcome, mode) /\ UNCHANGED exc
    /\ UNCHANGED <<mode, ret, env, stdout, trace, timeout, sleeps>>
    /\ UNCHANGED <<runArgs, p2>>

\* except OperationalError: time.sleep(1); continue
wait_sleep ==
    /\ pc = "wait_sleep"
    /\ elapsed' = elapsed + SLEEP_SECONDS
    /\ sleeps' = sleeps + 1
    /\ pc' = "wait_check"
    /\ UNCHANGED <<mode, ret, env, stdout, exc, trace, timeout, probes, unreach,
                   connected, waitRet>>
    /\ UNCHANGED <<runArgs, p2>>

\* upgrade_database: command.current(alembic_cfg) prints the heads into stdout
command_current ==
    /\ pc = "upg_current"
    /\ trace' = Append(trace, "current")
    /\ \E ok \in BOOLEAN :
         IF ok
         THEN /\ stdout' = WriteLines(stdout, CurrentOutput(history))
              /\ pc' = "upg_readline"
              /\ UNCHANGED exc
         ELSE Raise("MigrationStateError") /\ UNCHANGED stdout
    /\ UNCHANGED <<mode, ret, env, waitv>>
    /\ UNCHANGED <<runArgs, p2>>

\* value = alembic_cfg.stdout.readline(); if value: raise typer.Abort()
upgrade_guard ==
    /\ pc = "upg_readline"
    /\ stdout' = ReadLine(stdout).s
    /\ IF GuardTrips(ReadLine(stdout).line)
       THEN Raise("Abort")
       ELSE pc' = "upg_upgrade" /\ UNCHANGED exc
    /\ UNCHANGED <<mode, ret, env, trace, waitv>>
    /\ UNCHANGED <<runArgs, p2>>

\* command.upgrade(alembic_cfg, "head")
command_upgrade ==
    /\ pc = "upg_upgrade"
    /\ trace' = Append(trace, "upgrade")
    /\ \E ok \in BOOLEAN :
         IF ok
         THEN /\ history' = <<HEAD>>
              /\ pc' = AfterFn("upgrade", mode, ret)
              /\ UNCHANGED exc
         ELSE Raise("MigrationApplyError") /\ UNCHANGED history
    /\ UNCHANGED <<mode, ret, containers, images, stdout, waitv>>
    /\ UNCHANGED <<runArgs, p2>>

\* create_migration given upgrade_database's guard: it refuses a migrated database
create_migration_guarded ==
    /\ pc = "create"
    /\ IF history # <<>>
       THEN Raise("Abort") /\ UNCHANGED trace
       ELSE /\ trace' = Append(trace, "createRevision")
            /\ pc' = AfterFn("create", mode, ret)
            /\ UNCHANGED exc
    /\ UNCHANGED <<mode, ret, env, stdout, waitv>>
    /\ UNCHANGED <<runArgs, p2>>

\* create_migration: command.revision(alembic_cfg, autogenerate=True, message=message)
create_migration ==
    /\ pc = "create"
    /\ trace' = Append(trace, "createRevision")
    /\ \E ok \in BOOLEAN :
         IF ok
         THEN pc' = AfterFn("create", mode, ret) /\ UNCHANGED exc
         ELSE Raise("MigrationGenerateError")
    /\ UNCHANGED <<mode, ret, env, stdout, waitv>>
    /\ UNCHANGED <<runArgs, p2>>

Next ==
    \/ InvokeCommand
    \/ InvokeUnit
    \/ ensure_image_exists
    \/ image_pull
    \/ run_container
    \/ containers_run
    \/ stop
    \/ stop_container
    \/ containers_get
    \/ container_stop
    \/ container_remove
    \/ wait_begin
    \/ wait_check
    \/ wait_probe
    \/ wait_sleep
    \/ command_current
    \/ upgrade_guard
    \/ command_upgrade
    \/ create_migration

\* a step of the command in progress: everything but the start of a new command
Step ==
    \/ ensure_image_exists
    \/ image_pull
    \/ run_container
    \/ containers_run
    \/ stop
    \/ stop_container
    \/ containers_get
    \/ container_stop
    \/ container_remove
    \/ wait_begin
    \/ wait_check
    \/ wait_probe
    \/ wait_sleep
    \/ command_current
    \/ upgrade_guard
    \/ command_upgrade
    \/ create_migration

Spec == Init /\ [][Next]_vars

----------------------------------------------------------------------------
(* Two processes on one runtime: the first runs run_container or stop, the     *)
(* second run_container or stop_container, statement by statement, with no lock *)
(* between the existence check and the calls that act on it.                    *)

\* the second process fails: the exception ends its call
Raise2(e) ==
    /\ err2' = e
    /\ pc2' = "done"

p1 == <<mode, pc, ret, stdout, err, context, trace, waitv, runArgs>>

\* the first process invokes run_container or stop
RaceInvoke ==
    \E m \in {"run", "stop"} : Invoke(m, 0)

\* the second process invokes run_container or stop
Invoke2 ==
    /\ pc2 \in {"idle", "done"}
    /\ \E m \in {"run", "stop"} :
         /\ pc2' = (IF m = "run" THEN "run_list" ELSE "stop_list")
         /\ ret2' = "cmd"
    /\ err2' = "none"
    /\ UNCHANGED <<p1, env>>

\* run_container in the second process
run_container2 ==
    /\ pc2 = "run_list"
    /\ pc2' = RunBranch(containers)
    /\ ret2' = "run"
    /\ UNCHANGED <<p1, env, err2>>

\* client.containers.run in the second process
containers_run2 ==
    /\ pc2 = "run_run"
    /\ \E ok \in BOOLEAN :
         IF NameInUse(containers)
         THEN Raise2("NameConflict") /\ UNCHANGED containers
         ELSE IF ok
         THEN /\ containers' = Append(containers, "running")
              /\ pc2' = AfterFn("run", "run", ret2)
              /\ UNCHANGED err2
         ELSE Raise2("ContainerStartError") /\ UNCHANGED containers
    /\ UNCHANGED <<p1, images, history, ret2>>

\* stop_container in the second process
stop_container2 ==
    /\ pc2 = "stop_list"
    /\ pc2' = StopBranch(containers, ret2)
    /\ UNCHANGED <<p1, env, ret2, err2>>

\* client.containers.get in the second process
containers_get2 ==
    /\ pc2 = "stop_get"
    /\ IF containers = <<>>
       THEN Raise2("NotFound")
       ELSE pc2' = "stop_stop" /\ UNCHANGED err2
    /\ UNCHANGED <<p1, env, ret2>>

\* container.stop() in the second process
container_stop2 ==
    /\ pc2 = "stop_stop"
    /\ \E ok \in BOOLEAN :
         IF containers = <<>>
         THEN Raise2("NotFound") /\ UNCHANGED containers
         ELSE IF ok
         THEN /\ containers' = <<"exited">> \o Tail(containers)
              /\ pc2' = "stop_remove"
              /\ UNCHANGED err2
         ELSE Raise2("ContainerStopError") /\ UNCHANGED containers
    /\ UNCHANGED <<p1, images, history, ret2>>

\* container.remove() in the second process
container_remove2 ==
    /\ pc2 = "stop_remove"
    /\ \E ok \in BOOLEAN :
         IF containers = <<>>
         THEN Raise2("NotFound") /\ UNCHANGED containers
         ELSE IF ok
         THEN /\ containers' = Tail(containers)
              /\ pc2' = AfterFn("stop", "run", ret2)
              /\ UNCHANGED err2
         ELSE Raise2("ContainerStopError") /\ UNCHANGED containers
    /\ UNCHANGED <<p1, images, history, ret2>>

RaceNext ==
    \/ RaceInvoke
    \/ run_container
    \/ containers_run
    \/ stop
    \/ stop_container
    \/ containers_get
    \/ container_stop
    \/ container_remove
    \/ Invoke2
    \/ run_container2
    \/ containers_run2
    \/ stop_container2
    \/ containers_get2
    \/ container_stop2
    \/ container_remove2

RaceSpec == Init /\ [][RaceNext]_vars

TypeOK ==
    /\ mode \in Commands \cup Units \cup {"none"}
    /\ ret \in {"run", "cmd"}
    /\ Len(containers) <= 1
    /\ err \in Errors
    /\ context \in Errors
    /\ elapsed <= timeout + MaxProbeDur + SLEEP_SECONDS
    /\ waitRet \in {"-", "None", "raise"}

----------------------------------------------------------------------------
(* Properties *)

InWaitLoop == pc \in {"wait_check", "wait_probe", "wait_sleep"}

\* the readiness loop ran out of its timeout: it returned without ever connecting
WaitExhausted == waitRet = "None" /\ ~connected

\* the events of tr after the first e (all of tr when e is absent)
After(tr, e) == SubSeq(tr, Index(tr, e) + 1, Len(tr))

\* C1: in every execution of auto, stop is invoked exactly once, on every exit
\* path, and it is the last step: after it come only stop's own runtime calls,
\* never a start or a createRevision.
C1_AutoStopsOnceAndLast ==
    mode = "auto" =>
        /\ Count(trace, "stop") <= 1
        /\ Count(trace, "start") = 1
        /\ pc = "done" => Count(trace, "stop") = 1
        /\ Has(trace, "stop") =>
              \A i \in 1..Len(After(trace, "stop")) :
                  After(trace, "stop")[i] \in {"rt_stop", "rt_remove"}

\* an auto whose start failed at the pull and that still ran stop before ending
C1_Witness ==
    /\ mode = "auto" /\ pc = "done"
    /\ err = "ImagePullError"
    /\ trace = <<"start", "pull", "stop">>

\* C2 (as claimed): once the state query has reported a non-empty history and
\* the guard has looked at it, the flow is aborted with Abort and upgrade is
\* never invoked.
C2_NonEmptyStateAborts ==
    (stdout.buf # <<>> /\ pc # "upg_readline") =>
        /\ ~Has(trace, "upgrade")
        /\ err = "Abort" \/ context = "Abort"

\* C3 (as claimed): a wait whose every attempt was Unreachable does not end
\* like a successful wait: it never returns normally.
C3_TimeoutDistinctFromSuccess ==
    (probes > 0 /\ probes = unreach /\ ~InWaitLoop) => waitRet # "None"

\* C4 (as claimed): run never fails because the reserved name was taken, and
\* a run that returns leaves exactly one container, running, under the name.
C4_RunReplacesExisting ==
    (mode = "run" /\ pc = "done") =>
        /\ err # "NameConflict"
        /\ err = "none" => containers = <<"running">>

\* C5 (as claimed): an auto whose readiness wait ran out of its timeout never
\* calls createRevision (nor the migration engine), still invokes stop, and
\* ends with an error.
C5_TimeoutAbortsAuto ==
    (mode = "auto" /\ WaitExhausted /\ probes > 0) =>
        /\ ~Has(trace, "createRevision")
        /\ pc = "done" => (Has(trace, "stop") /\ err # "none")

\* C6: in auto, an error once raised is never lost: every later step leaves
\* it as the propagating exception or as the context of the one that replaced
\* it, and no step (a successful cleanup included) clears it.
C6_ErrorNotMasked ==
    [][(mode = "auto" /\ err # "none" /\ pc # "done") =>
          (err' # "none" /\ (err' = err \/ context' = err))]_vars

\* an auto that failed at the upgrade and whose cleanup failed too
C6_Witness ==
    /\ mode = "auto" /\ pc = "done"
    /\ err = "ContainerStopError"
    /\ context = "MigrationApplyError"

\* C7: stop_container's check on a runtime with no container of the reserved
\* name returns to its caller at once: no exception, no runtime call, nothing
\* changed.
C7_StopAbsentIsNoOp ==
    [][(pc = "stop_list" /\ containers = <<>>) =>
          /\ pc' = (IF ret = "run" THEN "run_run" ELSE "done")
          /\ UNCHANGED <<containers, err, context, trace>>]_vars

\* the stop command completed as a no-op on an absent container
C7_Witness ==
    /\ mode = "stop" /\ pc = "done"
    /\ containers = <<>>
    /\ trace = <<"stop">>
    /\ err = "none"

\* C8: a wait that connected on its Nth attempt returned normally after
\* exactly N attempts, N-1 of them Unreachable and each of those followed by
\* one sleep, and left the loop: no attempt and no sleep follows the success.
C8_SuccessOnNthAttempt ==
    connected =>
        /\ waitRet = "None"
        /\ probes = unreach + 1
        /\ sleeps = unreach
        /\ ~InWaitLoop

\* a wait that connected on its third attempt
C8_Witness ==
    /\ mode = "wait" /\ pc = "done"
    /\ connected /\ probes = 3 /\ sleeps = 2

\* C9: upgrade_database on an empty migration state (the state query
\* succeeded and printed nothing) invokes upgrade exactly once, after the
\* query, never aborts, and succeeds when the engine reports no error.
C9_EmptyStateUpgradesOnce ==
    (/\ mode \in {"upgrade", "start"} /\ pc = "done"
     /\ Has(trace, "current") /\ err # "MigrationStateError"
     /\ stdout.buf = <<>>) =>
        /\ Count(trace, "current") = 1
        /\ Count(trace, "upgrade") = 1
        /\ Index(trace, "current") < Index(trace, "upgrade")
        /\ err \in {"none", "MigrationApplyError"}
        /\ err = "none" => history = <<HEAD>>

\* upgrade_database applied the migrations to an empty database
C9_Witness ==
    /\ mode = "upgrade" /\ pc = "done"
    /\ stdout.buf = <<>>
    /\ trace = <<"current", "upgrade">>
    /\ err = "none" /\ history = <<HEAD>>

\* C10: start never invokes stop, and never stops or removes the container
\* it has started; a start that ends at the migration step (guard or engine
\* failure) leaves that container running.
C10_StartLeavesContainer ==
    mode = "start" =>
        /\ ~Has(trace, "stop")
        /\ Has(trace, "rt_run") =>
              /\ ~Has(After(trace, "rt_run"), "rt_stop")
              /\ ~Has(After(trace, "rt_run"), "rt_remove")
        /\ (pc = "done" /\ err \in {"Abort", "MigrationStateError", "MigrationApplyError"})
              => containers = <<"running">>

\* a start whose upgrade failed, the container still running
C10_Witness ==
    /\ mode = "start" /\ pc = "done"
    /\ err = "MigrationApplyError"
    /\ Has(trace, "rt_run")
    /\ containers = <<"running">>

\* the call orders of a start that ran to its end: the pull only when the cache
\* check asked for it, stop and remove only inside run_container
StartOrders ==
    { pre \o <<"run">> \o mid \o <<"rt_run", "wait", "current", "upgrade">> :
        pre \in { <<"start">>, <<"start", "pull">> },
        mid \in { <<>>, <<"rt_stop", "rt_remove">> } }

\* C11: a start that ends in success made its calls in the order ensureImage,
\* run, wait, checkAndApply, each once: at most one pull (one when the cache
\* check missed the image), one containers.run with the configured image, env
\* and ports, one state query and one upgrade; a wait that connected took
\* exactly one attempt more than it had Unreachable ones.
C11_StartStepsInOrder ==
    (mode = "start" /\ pc = "done" /\ err = "none") =>
        /\ trace \in StartOrders
        /\ ~Has(trace, "pull") => ~NeedsPull(IMAGE, images)
        /\ runArgs = RunArguments(IMAGE, ENVIRONMENT, PORTS)
        /\ containers = <<"running">>
        /\ connected => (probes = unreach + 1 /\ sleeps = unreach)
        /\ history = <<HEAD>>

\* the scenario: image absent, two Unreachable attempts then a connection, an
\* empty migration state
C11_Witness ==
    /\ mode = "start" /\ pc = "done" /\ err = "none"
    /\ trace = <<"start", "pull", "run", "rt_run", "wait", "current", "upgrade">>
    /\ connected /\ probes = 3 /\ unreach = 2
    /\ stdout.buf = <<>>

\* C12 (as claimed): a start whose readiness wait ran out of its timeout
\* invokes neither the state query nor upgrade.
C12_TimeoutSkipsMigration ==
    (mode = "start" /\ WaitExhausted /\ probes > 0) =>
        (~Has(trace, "current") /\ ~Has(trace, "upgrade"))

\* C13 (as claimed): after every stop that returned successfully no container
\* with the reserved name exists.
C13_StopLeavesAbsent ==
    (mode = "stop" /\ pc = "done" /\ err = "none") => containers = <<>>

C15_OtherFailurePropagates ==
    waitRet = "raise" =>
        /\ ~InWaitLoop
        /\ ~connected
        /\ probes = unreach + 1
        /\ sleeps = unreach
        /\ err = "ProbeError" \/ context = "ProbeError"
        /\ ~Has(trace, "current")

\* a wait that retried one Unreachable attempt and then met another failure
C15_Witness ==
    /\ mode = "wait" /\ pc = "done"
    /\ waitRet = "raise" /\ err = "ProbeError"
    /\ probes = 2 /\ sleeps = 1

\* every attempt so far was Unreachable and took no time
InstantUnreachable == probes = unreach /\ elapsed = sleeps * SLEEP_SECONDS

\* C16: the timeout runs from the loop's start: an attempt begins only while
\* the elapsed time is below the timeout T, wait never gives up before T, and
\* with instantaneous, always Unreachable attempts it gives up before
\* T + SLEEP_SECONDS, after at most T / SLEEP_SECONDS attempts.
C16_TimeoutFromLoopStart ==
    /\ pc = "wait_probe" => elapsed < timeout
    /\ WaitExhausted => elapsed >= timeout
    /\ (WaitExhausted /\ InstantUnreachable) =>
          /\ elapsed < timeout + SLEEP_SECONDS
          /\ probes * SLEEP_SECONDS <= timeout

\* a wait of 3 seconds that gave up after three instantaneous attempts
C16_Witness ==
    /\ mode = "wait" /\ pc = "done"
    /\ WaitExhausted /\ InstantUnreachable
    /\ timeout = 3 /\ probes = 3 /\ elapsed = 3

\* C17 (as claimed): a pull is triggered only when no cached image carries the
\* image name among its tags.
C17_PullOnlyWhenUntagged ==
    pc = "pull" => ~(\E i \in images : Has(i, IMAGE))

\* C18: create_migration applies no guard: it always calls the engine's
\* revision, reads neither the migration state nor stdout, raises nothing but
\* the engine's own failure, and in auto it is called, once, whenever the
\* upgrade has succeeded.
C18_RevisionUnguarded ==
    [][/\ pc = "create" =>
            /\ trace' = Append(trace, "createRevision")
            /\ stdout' = stdout /\ history' = history
            /\ err' \in {"none", "MigrationGenerateError"}
       /\ (mode = "auto" /\ pc = "upg_upgrade" /\ err' = "none") => pc' = "create"
       /\ Count(trace', "createRevision") <= 1]_vars

\* an auto that generated its revision on the database it had just migrated
C18_Witness ==
    /\ mode = "auto" /\ pc = "done" /\ err = "none"
    /\ Has(trace, "createRevision")
    /\ Index(trace, "upgrade") < Index(trace, "createRevision")
    /\ history = <<HEAD>>

Running == pc \notin {"idle", "done"}

\* how far statement p is from the end of the longest flow (auto): the
\* statements of stop_container count from their caller, r
Stage(p, r) ==
    CASE p = "ensure_list"  -> 20
      [] p = "pull"         -> 19
      [] p = "run_list"     -> 18
      [] p = "stop_list"    -> IF r = "run" THEN 17 ELSE 5
      [] p = "stop_get"     -> IF r = "run" THEN 16 ELSE 4
      [] p = "stop_stop"    -> IF r = "run" THEN 15 ELSE 3
      [] p = "stop_remove"  -> IF r = "run" THEN 14 ELSE 2
      [] p = "run_run"      -> 13
      [] p = "wait_begin"   -> 12
      [] p \in {"wait_check", "wait_probe", "wait_sleep"} -> 11
      [] p = "upg_current"  -> 10
      [] p = "upg_readline" -> 9
      [] p = "upg_upgrade"  -> 8
      [] p = "create"       -> 7
      [] p = "stop_cmd"     -> 6
      [] OTHER              -> 0

\* what is left of the readiness loop: the seconds until the loop condition
\* must fail, three statements a round
LoopLeft(p, t, e) ==
    CASE p = "wait_check" -> 3 * (t + MaxProbeDur + SLEEP_SECONDS - e) + 2
      [] p = "wait_probe" -> 3 * (t + MaxProbeDur + SLEEP_SECONDS - e) + 1
      [] p = "wait_sleep" -> 3 * (t + MaxProbeDur + SLEEP_SECONDS - e)
      [] OTHER            -> 0

\* a step moved the process strictly closer to its end
Closer(p, r, t, e, q, s, u, f) ==
    /\ LoopLeft(q, u, f) >= 0
    /\ \/ Stage(q, s) < Stage(p, r)
       \/ Stage(q, s) = Stage(p, r) /\ LoopLeft(q, u, f) < LoopLeft(p, t, e)

\* C19: every execution of a command terminates: until it is done the
\* process always has a next statement to execute, and every statement takes
\* it strictly closer to the end in a well-founded order (the flow's
\* statements in sequence, and inside the readiness loop the time left before
\* the timeout), whatever the probes and the other calls return.
C19_EveryCommandTerminates ==
    /\ [](Running => ENABLED Step)
    /\ [][Running => Closer(pc, ret, timeout, elapsed, pc', ret', timeout', elapsed')]_vars

\* an auto that went through the whole readiness loop and ended
C19_Witness ==
    /\ mode = "auto" /\ pc = "done"
    /\ WaitExhausted /\ probes > 0
    /\ Has(trace, "stop")

\* the failures of the runtime that a lost race on the name produces
RaceFailures == {"NameConflict", "NotFound"}

\* C20 (as claimed): as long as the second process has never been started,
\* the first one's calls never end in a name conflict or a container not
\* found.
C20_SequentialNeverFails ==
    (pc2 = "idle" /\ err2 = "none") =>
        (err \notin RaceFailures /\ context \notin RaceFailures)

\* both processes are past the existence check of run_container, each having
\* found no container, and neither has called containers.run yet
C20_BothPassedCheck ==
    /\ pc = "run_run" /\ pc2 = "run_run"
    /\ trace = <<"run">>
    /\ containers = <<>>

\* the race lost: the first process started the container it found absent,
\* the second one, past the same check, was refused the name
C20_RaceLost ==
    /\ mode = "run" /\ pc = "done" /\ err = "none" /\ trace = <<"run", "rt_run">>
    /\ pc2 = "done" /\ ret2 = "run" /\ err2 = "NameConflict"
    /\ containers = <<"running">>

\* a stop that found the container listed and lost it to the other process
\* before its get
C20_StopLost ==
    /\ mode = "stop" /\ pc = "done" /\ err = "NotFound"
    /\ containers = <<>>

====
